---- MODULE Spec2Model ----
(***************************************************************************)
(* Jiraldo: a bot bridging a Jira tracker and Slack (src/main.py).         *)
(*                                                                         *)
(* Three execution contexts are modelled:                                  *)
(*   - the monitor thread (start_monitoring / check_new_assignments),      *)
(*   - the request context (slack_events / process_natural_question),      *)
(*   - the four tracker search functions taken on their own.               *)
(*                                                                         *)
(* Text is a sequence of one-character strings, so that lower(), re.sub,   *)
(* strip() and the "in" substring test are computed, not assumed.          *)
(* String literals of the source are written in ASCII: an emoji by its     *)
(* Slack short name (":x:", ":tada:"), an accented letter by its base      *)
(* letter; the character o-acute of the keyword list is "o_acute".         *)
(***************************************************************************)
EXTENDS Integers, Sequences, FiniteSets, TLC

VARIABLES
    mpc,            \* monitor thread: "run_pending" | "sleep", or inside a tick
                    \* "window_closed" | "fetch" | "notify"
    elapsed,        \* 30 s units since the job was last scheduled (saturates)
    slept,          \* TRUE once the current time.sleep(30) has lasted 30 s
    running,        \* number of check_new_assignments calls begun and not returned
    current_hour,   \* datetime.now().hour read by the current tick
    assignments,    \* result of get_recent_assignments in the current tick
    idx,            \* position of the for loop over assignments
    tick_calls,     \* HTTP calls issued by the current tick, in order
    tick_notified,  \* issues handed to send_slack_notification, in order
    prev_notified,  \* keys of the issues notified in earlier ticks
    req,            \* request being handled: its position and its text
    req_inputs,     \* what the last handled request read: text, API answers, clock
    reply,          \* reply of the last process_natural_question call
    req_intent,     \* branch of the if / elif chain that call took
    req_calls,      \* HTTP calls issued for that request, in order
    op_result       \* last application of a tracker search function

vars == << mpc, elapsed, slept, running, current_hour, assignments,
           idx, tick_calls, tick_notified, prev_notified, req, req_inputs,
           reply, req_intent, req_calls, op_result >>

poller_vars == << mpc, elapsed, slept, running, current_hour,
                  assignments, idx, tick_calls, tick_notified, prev_notified >>

request_vars == << req, req_inputs, reply, req_intent, req_calls >>

(***************************************************************************)
(* Bounds of the model.                                                    *)
(***************************************************************************)
MaxPieces == 2        \* pieces concatenated into a message text
MaxIssues == 2        \* issues in a recent-assignment / deadline / team payload
MaxTickets == 7       \* issues in a user-ticket payload
MaxDueAhead == 5      \* latest due date, in days after today
UnitsPerDay == 3      \* instants of the day distinguished (0 is midnight)

(***************************************************************************)
(* Program constants.                                                      *)
(***************************************************************************)
CHECK_INTERVAL_MINUTES == 2
SLEEP_SECONDS == 30
NOTIFICATION_HOURS == << 8, 18 >>
EMAIL_DOMAIN == "@ifood.com.br"
TicketsShown == 5
DeadlinesShown == 10
TeamShown == 10
HTTP_OK == 200

(***************************************************************************)
(* Characters and strings.                                                 *)
(***************************************************************************)
Upper == << "A", "B", "C", "D", "E", "F", "G", "H", "I", "J", "K", "L", "M",
            "N", "O", "P", "Q", "R", "S", "T", "U", "V", "W", "X", "Y", "Z" >>
LowerCase == << "a", "b", "c", "d", "e", "f", "g", "h", "i", "j", "k", "l", "m",
                "n", "o", "p", "q", "r", "s", "t", "u", "v", "w", "x", "y", "z" >>
Digits == { "0", "1", "2", "3", "4", "5", "6", "7", "8", "9" }
Whitespace == { " ", "\n", "\t" }

UpperSet == { Upper[i] : i \in 1..Len(Upper) }

\* str.lower() on one character
LowerChar(c) ==
    IF c \in UpperSet
    THEN LowerCase[CHOOSE i \in 1..Len(Upper) : Upper[i] = c]
    ELSE c

\* str.lower()
Lower(s) == [ i \in 1..Len(s) |-> LowerChar(s[i]) ]

\* needle in hay (Python's substring test)
Contains(hay, needle) ==
    \E i \in 0..(Len(hay) - Len(needle)) :
        \A j \in 1..Len(needle) : hay[i + j] = needle[j]

\* the class [A-Z0-9] of the mention pattern
MentionIdChar(c) == c \in UpperSet \cup Digits

\* end (exclusive) of the run of [A-Z0-9] characters of s that starts at i
RECURSIVE RunEnd(_, _)
RunEnd(s, i) ==
    IF i <= Len(s) /\ MentionIdChar(s[i]) THEN RunEnd(s, i + 1) ELSE i

\* length of the match of <@[A-Z0-9]+> at position i of s, 0 when none
MentionMatch(s, i) ==
    IF i + 1 <= Len(s) /\ s[i] = "<" /\ s[i + 1] = "@"
    THEN LET e == RunEnd(s, i + 2)
         IN  IF e > i + 2 /\ e <= Len(s) /\ s[e] = ">" THEN e - i + 1 ELSE 0
    ELSE 0

\* re.sub(r'<@[A-Z0-9]+>', '', s), scanning s from position i
RECURSIVE StripMentionsFrom(_, _)
StripMentionsFrom(s, i) ==
    IF i > Len(s) THEN << >>
    ELSE LET m == MentionMatch(s, i)
         IN  IF m > 0 THEN StripMentionsFrom(s, i + m)
             ELSE << s[i] >> \o StripMentionsFrom(s, i + 1)

StripMentions(s) == StripMentionsFrom(s, 1)

\* str.strip()
RECURSIVE LStrip(_)
LStrip(s) ==
    IF s # << >> /\ Head(s) \in Whitespace THEN LStrip(Tail(s)) ELSE s

RECURSIVE RStrip(_)
RStrip(s) ==
    IF s # << >> /\ s[Len(s)] \in Whitespace
    THEN RStrip(SubSeq(s, 1, Len(s) - 1))
    ELSE s

Strip(s) == RStrip(LStrip(s))

\* lines 302-305: text_clean
CleanText(text) == Strip(StripMentions(Lower(text)))

(***************************************************************************)
(* Exceptions.  A computation yields Ok(v) or Raised; Catch is the         *)
(* "except Exception" clause that ends every client function.              *)
(***************************************************************************)
Ok(v) == [ exc |-> FALSE, val |-> v ]
Raised == [ exc |-> TRUE, val |-> << >> ]

Catch_reraise(r, default) == r

Catch(r, default) == IF r.exc THEN Ok(default) ELSE r

\* dict.get(key, default) on a dict modelled as a function of its keys
Get(d, k, default) == IF k \in DOMAIN d THEN d[k] ELSE default

\* one HTTP call, as recorded in the call logs
Call(api, arg) == [ api |-> api, arg |-> arg ]

(***************************************************************************)
(* Tracker payloads.                                                       *)
(***************************************************************************)
\* "assignee": null; a display name is kept as the sequence of its words
NoAssignee ==
    [ present |-> FALSE, has_email |-> FALSE, emailAddress |-> "", displayName |-> << >> ]
Assignee(email, name) ==
    [ present |-> TRUE, has_email |-> TRUE, emailAddress |-> email, displayName |-> name ]
\* an assignee whose e-mail address the tracker does not disclose
HiddenAssignee(name) ==
    [ present |-> TRUE, has_email |-> FALSE, emailAddress |-> "", displayName |-> name ]

NoPriority == [ present |-> FALSE, name |-> << >> ]
Priority(name) == [ present |-> TRUE, name |-> name ]

P_Highest == << "H", "i", "g", "h", "e", "s", "t" >>
P_Urgent == << "U", "r", "g", "e", "n", "t" >>
P_Medium == << "M", "e", "d", "i", "u", "m" >>
P_Low == << "L", "o", "w" >>
Priorities == << P_Highest, P_Medium, P_Urgent, P_Low >>

S_InProgress == << "I", "n", " ", "P", "r", "o", "g", "r", "e", "s", "s" >>
S_ToDo == << "T", "o", " ", "D", "o" >>
S_Blocked == << "B", "l", "o", "c", "k", "e", "d" >>
S_Review == << "R", "e", "v", "i", "e", "w" >>
Statuses == << S_InProgress, S_ToDo, S_Blocked, S_Review >>

IssueKey(n) == "JIR-" \o ToString(n)

\* the n-th issue of a user-ticket payload
Ticket(n) ==
    [ key |-> IssueKey(n),
      summary |-> "summary " \o ToString(n),
      status |-> Statuses[(n % Len(Statuses)) + 1],
      priority |-> Priority(Priorities[(n % Len(Priorities)) + 1]) ]

\* user-ticket payloads: n issues, in ascending or in descending key order
TicketLists ==
    { [ i \in 1..n |-> Ticket(i) ] : n \in 0..MaxTickets }
    \cup { [ i \in 1..n |-> Ticket(MaxTickets + 1 - i) ] : n \in 0..MaxTickets }

\* issues of a recent-assignment payload
AssignmentIssue(n, assignee, priority) ==
    [ key |-> IssueKey(n), summary |-> "summary " \o ToString(n),
      assignee |-> assignee, priority |-> priority ]

AssignmentIssues ==
    { AssignmentIssue(1, Assignee("alice@example.com", << "Alice", "Silva" >>), Priority(P_Highest)),
      AssignmentIssue(2, Assignee("bob@example.com", << "Bob" >>), Priority(P_Low)),
      AssignmentIssue(3, NoAssignee, Priority(P_Medium)),
      AssignmentIssue(4, HiddenAssignee(<< "Carol" >>), NoPriority) }

\* issues of a deadline payload; a due date is a day number, today is day 1
DueDates == 0..(1 + MaxDueAhead)
DeadlineIssue(due) ==
    [ key |-> IssueKey(due), summary |-> "summary " \o ToString(due),
      duedate |-> due, assignee |-> Assignee("alice@example.com", << "Alice" >>) ]
DeadlineIssues == { DeadlineIssue(d) : d \in DueDates }

\* issues of a team payload
TeamIssue(assignee, status) == [ assignee |-> assignee, status |-> status ]
TeamIssues ==
    { TeamIssue(a, s) :
        a \in { Assignee("alice@example.com", << "Alice", "Silva" >>),
                Assignee("bob@example.com", << "Bob" >>), NoAssignee },
        s \in { S_InProgress, S_ToDo, S_Blocked } }

\* all sequences over S of length at most n
SeqUpTo(S, n) == UNION { [ 1..k -> S ] : k \in 0..n }

(***************************************************************************)
(* Tracker responses: what requests.post(...) yields.                      *)
(***************************************************************************)
\* a response that arrived: status line and body
JiraResponse(status, json, has_issues, issues) ==
    [ transport |-> "ok", status |-> status, json |-> json,
      has_issues |-> has_issues, issues |-> issues ]
\* no response: the call raised (connection error, or the 30 s timeout)
JiraFailure(kind) ==
    [ transport |-> kind, status |-> 0, json |-> FALSE,
      has_issues |-> FALSE, issues |-> << >> ]

JiraStatuses == { HTTP_OK, 401, 500 }

JiraResponses(lists) ==
    { JiraFailure(k) : k \in { "timeout", "connection_error" } }
    \cup { JiraResponse(s, FALSE, FALSE, << >>) : s \in JiraStatuses }
    \cup { JiraResponse(s, TRUE, FALSE, << >>) : s \in JiraStatuses }
    \cup { JiraResponse(s, TRUE, TRUE, l) : s \in JiraStatuses, l \in lists }

\* requests.post(url, ..., timeout=30)
Post(resp) == IF resp.transport = "ok" THEN Ok(resp) ELSE Raised

\* response.json().get("issues", [])
JsonIssues(resp) ==
    IF ~resp.json THEN Raised
    ELSE Ok(IF resp.has_issues THEN resp.issues ELSE << >>)

\* the body of the three list searches: lines 59-63, 132-136, 154-160
SearchBody(resp) ==
    IF Post(resp).exc THEN Raised
    ELSE IF resp.status = HTTP_OK THEN JsonIssues(resp)
    ELSE Ok(<< >>)

get_user_tickets(resp) == Catch(SearchBody(resp), << >>)

get_upcoming_deadlines(resp) == Catch(SearchBody(resp), << >>)

get_recent_assignments(resp) == Catch(SearchBody(resp), << >>)

\* lines 105-110: the counter an issue's status is added to
StatusCounter(status) ==
    LET l == Lower(status)
    IN  IF Contains(l, << "p", "r", "o", "g", "r", "e", "s", "s" >>)
           \/ Contains(l, << "d", "o", "i", "n", "g" >>)
        THEN "em_progresso"
        ELSE IF Contains(l, << "d", "o" >>) \/ Contains(l, << "f", "a", "z", "e", "r" >>)
        THEN "a_fazer"
        ELSE IF Contains(l, << "b", "l", "o", "c", "k" >>)
                \/ Contains(l, << "b", "l", "o", "q", "u", "e" >>)
        THEN "bloqueado"
        ELSE "none"

\* position of the entry of e-mail address e in the ordered mapping, 0 when absent
EntryOf(stats, e) ==
    IF \E i \in 1..Len(stats) : stats[i].email = e
    THEN CHOOSE i \in 1..Len(stats) : stats[i].email = e
    ELSE 0

Bump(entry, counter) ==
    [ entry EXCEPT !.total = @ + 1,
                   !.em_progresso = IF counter = "em_progresso" THEN @ + 1 ELSE @,
                   !.a_fazer = IF counter = "a_fazer" THEN @ + 1 ELSE @,
                   !.bloqueado = IF counter = "bloqueado" THEN @ + 1 ELSE @ ]

\* lines 88-112: team_stats, a dict kept as the sequence of its entries in
\* insertion order; an issue without assignee raises
RECURSIVE TeamStats(_, _, _)
TeamStats(issues, i, stats) ==
    IF i > Len(issues) THEN Ok(stats)
    ELSE LET a == issues[i].assignee IN
         IF ~a.present \/ ~a.has_email THEN Raised
         ELSE LET at == EntryOf(stats, a.emailAddress)
                  fresh == [ email |-> a.emailAddress, name |-> a.displayName,
                             total |-> 0, em_progresso |-> 0, a_fazer |-> 0,
                             bloqueado |-> 0 ]
                  base == IF at = 0 THEN Append(stats, fresh) ELSE stats
                  pos == IF at = 0 THEN Len(base) ELSE at
              IN  TeamStats(issues, i + 1,
                     [ base EXCEPT ![pos] = Bump(@, StatusCounter(issues[i].status)) ])

\* lines 82-113
TeamSummaryBody(resp) ==
    IF Post(resp).exc THEN Raised
    ELSE IF resp.status = HTTP_OK
    THEN LET issues == JsonIssues(resp)
         IN  IF issues.exc THEN Raised ELSE TeamStats(issues.val, 1, << >>)
    ELSE Ok(<< >>)

get_team_summary(resp) == Catch(TeamSummaryBody(resp), << >>)

(***************************************************************************)
(* Chat service.                                                           *)
(***************************************************************************)
EmptyDict == [ k \in {} |-> "" ]

\* Optional values: None, or a value
None == [ none |-> TRUE, v |-> EmptyDict ]
Some(u) == [ none |-> FALSE, v |-> u ]
Falsy_none_only(x) == x.none

\* Python's "not x" for None or a dict
Falsy(x) == x.none \/ DOMAIN x.v = {}

\* what requests.get / requests.post yields for a chat API call
SlackResponse(ok, user) == [ transport |-> "ok", json |-> TRUE, ok |-> ok, user |-> user ]
SlackGarbage == [ transport |-> "ok", json |-> FALSE, ok |-> FALSE, user |-> None ]
SlackFailure == [ transport |-> "error", json |-> FALSE, ok |-> FALSE, user |-> None ]

\* users.info payloads
U_alice ==
    [ profile |-> [ email |-> "alice@example.com" ], name |-> "alice",
      real_name |-> "Alice Silva" ]
U_bob == [ profile |-> EmptyDict, name |-> "bob", real_name |-> "Bob" ]
U_carol == [ profile |-> [ email |-> "" ], name |-> "carol" ]

UserInfoResponses ==
    { SlackFailure, SlackGarbage, SlackResponse(FALSE, None),
      SlackResponse(TRUE, None), SlackResponse(TRUE, Some(EmptyDict)) }
    \cup { SlackResponse(TRUE, Some(u)) : u \in { U_alice, U_bob, U_carol } }

\* users.lookupByEmail payloads
LookupResponses ==
    { SlackFailure, SlackGarbage, SlackResponse(FALSE, None),
      SlackResponse(TRUE, Some(EmptyDict)),
      SlackResponse(TRUE, Some([ id |-> "U100" ])) }

\* chat.postMessage payloads
PostMessageResponses ==
    { SlackFailure, SlackGarbage, SlackResponse(FALSE, None), SlackResponse(TRUE, None) }

\* lines 175-183
UserByMentionBody(resp) ==
    IF resp.transport # "ok" \/ ~resp.json THEN Raised
    ELSE IF resp.ok
    THEN (IF resp.user.none THEN Raised ELSE Ok(resp.user))
    ELSE Ok(None)

get_slack_user_by_mention(resp) == Catch(UserByMentionBody(resp), None).val

\* the message is posted without looking at the lookup's "ok"
SlackDmBody_unchecked(user_email, lookup, post) ==
    LET c1 == << Call("users.lookupByEmail", user_email) >>
        c2 == Append(c1, Call("chat.postMessage", user_email))
    IN  IF lookup.transport # "ok" \/ ~lookup.json THEN [ r |-> Raised, calls |-> c1 ]
        ELSE IF post.transport # "ok" \/ ~post.json THEN [ r |-> Raised, calls |-> c2 ]
        ELSE [ r |-> Ok(post.ok), calls |-> c2 ]

\* lines 222-252: [r, calls]; the calls are accumulated whatever the outcome
SlackDmBody(user_email, lookup, post) ==
    LET c1 == << Call("users.lookupByEmail", user_email) >> IN
    IF lookup.transport # "ok" \/ ~lookup.json THEN [ r |-> Raised, calls |-> c1 ]
    ELSE IF lookup.ok
    THEN IF lookup.user.none \/ "id" \notin DOMAIN lookup.user.v
         THEN [ r |-> Raised, calls |-> c1 ]
         ELSE LET c2 == Append(c1, Call("chat.postMessage", lookup.user.v.id)) IN
              IF post.transport # "ok" \/ ~post.json
              THEN [ r |-> Raised, calls |-> c2 ]
              ELSE [ r |-> Ok(post.ok), calls |-> c2 ]
    ELSE [ r |-> Ok(FALSE), calls |-> c1 ]

\* lines 217-256
send_slack_dm(user_email, lookup, post) ==
    LET b == SlackDmBody(user_email, lookup, post)
    IN  [ r |-> Catch(b.r, FALSE), calls |-> b.calls ]

\* lines 258-293: [raised, success, calls]; "raised" tells that the except
\* clause of line 292 was taken (nothing is raised to the caller)
send_slack_notification(assignment, lookup, post) ==
    IF ~assignment.assignee.present \/ ~assignment.assignee.has_email
       \/ ~assignment.priority.present
    THEN [ raised |-> TRUE, success |-> FALSE, calls |-> << >> ]
    ELSE LET dm == send_slack_dm(assignment.assignee.emailAddress, lookup, post)
         IN  [ raised |-> dm.r.exc, success |-> IF dm.r.exc THEN FALSE ELSE dm.r.val, calls |-> dm.calls ]

\* lines 189-215: the call made by send_channel_message
ChannelMessageCall(channel_id) == Call("chat.postMessage", channel_id)

(***************************************************************************)
(* Command router: process_natural_question.                               *)
(***************************************************************************)
PersonalKeywords ==
    << << "m", "e", "u", "s", " ", "t", "i", "c", "k", "e", "t", "s" >>,
       << "t", "i", "c", "k", "e", "t", "s" >>,
       << "m", "i", "n", "h", "a", "s", " ", "t", "a", "r", "e", "f", "a", "s" >> >>
TeamKeywords ==
    << << "r", "e", "l", "a", "t", "o_acute", "r", "i", "o" >>,
       << "e", "q", "u", "i", "p", "e" >>,
       << "t", "i", "m", "e" >>,
       << "t", "e", "a", "m" >> >>
DeadlineKeywords ==
    << << "d", "e", "a", "d", "l", "i", "n", "e" >>,
       << "p", "r", "a", "z", "o" >>,
       << "v", "e", "n", "c", "i", "m", "e", "n", "t", "o" >>,
       << "e", "n", "t", "r", "e", "g", "a" >> >>
HelpKeywords ==
    << << "h", "e", "l", "p" >>,
       << "a", "j", "u", "d", "a" >>,
       << "c", "o", "m", "a", "n", "d", "o", "s" >> >>

\* any(word in text_clean for word in words)
AnyIn(text_clean, words) ==
    \E i \in 1..Len(words) : Contains(text_clean, words[i])

Intent_team_first(text_clean) ==
    IF AnyIn(text_clean, TeamKeywords) THEN "team"
    ELSE IF AnyIn(text_clean, PersonalKeywords) THEN "personal"
    ELSE IF AnyIn(text_clean, DeadlineKeywords) THEN "deadlines"
    ELSE IF AnyIn(text_clean, HelpKeywords) THEN "help"
    ELSE "fallback"

\* the if / elif chain of lines 322, 345, 370, 394, 411
Intent(text_clean) ==
    IF AnyIn(text_clean, PersonalKeywords) THEN "personal"
    ELSE IF AnyIn(text_clean, TeamKeywords) THEN "team"
    ELSE IF AnyIn(text_clean, DeadlineKeywords) THEN "deadlines"
    ELSE IF AnyIn(text_clean, HelpKeywords) THEN "help"
    ELSE "fallback"

\* a reply: its kind, its leading emoji, the rest of its first line, and for
\* the list replies the count announced, the lines and the remainder announced
Reply(kind, mark, head, total, lines, more) ==
    [ kind |-> kind, mark |-> mark, head |-> head, total |-> total,
      lines |-> lines, more |-> more ]

NoReply == Reply("none", "", "", 0, << >>, 0)

\* lines 312-316
UserEmail(slack_user) ==
    LET email == Get(Get(slack_user, "profile", EmptyDict), "email", "")
    IN  IF email = "" THEN Get(slack_user, "name", "") \o EMAIL_DOMAIN ELSE email

\* line 318
DisplayName(slack_user) ==
    Get(slack_user, "real_name", Get(slack_user, "name", ""))

Take_whole(s, n) == s

\* tickets[:n]
Take(s, n) == SubSeq(s, 1, IF Len(s) < n THEN Len(s) ELSE n)

\* line 335
PriorityEmoji(priority) ==
    LET l == Lower(priority.name)
    IN  IF Contains(l, << "h", "i", "g", "h" >>)
           \/ Contains(l, << "u", "r", "g", "e", "n", "t" >>)
        THEN ":fire:" ELSE ":memo:"

\* a reply without the special case of line 325
PersonalReply_empty(display_name, tickets) ==
    Reply("tickets", ":dart:",
          "@" \o display_name \o ", voce tem " \o ToString(Len(tickets))
              \o " ticket(s) em aberto:",
          Len(tickets), << >>, 0)

\* lines 325-341
PersonalReply(display_name, tickets) ==
    IF Len(tickets) = 0
    THEN Reply("no_tickets", ":tada:",
               "@" \o display_name \o ", voce nao tem tickets em aberto!", 0, << >>, 0)
    ELSE LET shown == Take(tickets, TicketsShown)
         IN  Reply("tickets", ":dart:",
                   "@" \o display_name \o ", voce tem " \o ToString(Len(tickets))
                       \o " ticket(s) em aberto:",
                   Len(tickets),
                   [ i \in 1..Len(shown) |->
                       [ emoji |-> PriorityEmoji(shown[i].priority),
                         key |-> shown[i].key,
                         summary |-> shown[i].summary,
                         status |-> shown[i].status ] ],
                   IF Len(tickets) > TicketsShown
                   THEN Len(tickets) - TicketsShown ELSE 0)

\* position of the first entry of largest total
FirstMax(stats) ==
    CHOOSE i \in 1..Len(stats) :
        /\ \A j \in 1..Len(stats) : stats[j].total <= stats[i].total
        /\ \A j \in 1..(i - 1) : stats[j].total < stats[i].total

\* sorted(team_stats.items(), key=total, reverse=True): stable, descending
RECURSIVE SortedByTotal(_)
SortedByTotal(stats) ==
    IF Len(stats) = 0 THEN << >>
    ELSE LET m == FirstMax(stats)
         IN  << stats[m] >>
             \o SortedByTotal(SubSeq(stats, 1, m - 1) \o SubSeq(stats, m + 1, Len(stats)))

\* lines 348-368
TeamReply(team_stats) ==
    IF Len(team_stats) = 0
    THEN Reply("team_error", ":x:", "Nao consegui gerar relatorio da equipe.",
               0, << >>, 0)
    ELSE LET shown == Take(SortedByTotal(team_stats), TeamShown)
         IN  Reply("team_report", ":bar_chart:", "*Relatorio da Equipe:*",
                   Len(team_stats),
                   [ i \in 1..Len(shown) |->
                       [ emoji |-> IF shown[i].bloqueado > 0 THEN ":rotating_light:"
                                   ELSE IF shown[i].em_progresso > 2 THEN ":fire:"
                                   ELSE ":white_check_mark:",
                         name |-> shown[i].name[1],
                         total |-> shown[i].total,
                         em_progresso |-> shown[i].em_progresso,
                         bloqueado |-> shown[i].bloqueado ] ],
                   0)

\* a datetime: a day number and an instant of that day
DateTime(day, tod) == [ day |-> day, tod |-> tod ]

\* datetime.strptime(due_date, "%Y-%m-%d"): midnight of the due date
StrpTime(due_date) == DateTime(due_date, 0)

\* (a - b).days: timedelta normalises to whole days rounding down
TimedeltaDays(a, b) ==
    ((a.day * UnitsPerDay + a.tod) - (b.day * UnitsPerDay + b.tod)) \div UnitsPerDay

\* lines 384-385
DaysLeft(due_date, now) == TimedeltaDays(StrpTime(due_date), now)

\* line 387
Urgency(days_left) ==
    IF days_left <= 1 THEN ":rotating_light:"
    ELSE IF days_left <= 3 THEN ":warning:"
    ELSE ":date:"

\* lines 373-390
DeadlineReply(deadlines, now) ==
    IF Len(deadlines) = 0
    THEN Reply("no_deadlines", ":tada:",
               "Nao ha deadlines proximos nos proximos 7 dias!", 0, << >>, 0)
    ELSE LET shown == Take(deadlines, DeadlinesShown)
         IN  Reply("deadlines", ":alarm_clock:", "*Deadlines Proximos:*",
                   Len(deadlines),
                   [ i \in 1..Len(shown) |->
                       [ urgency |-> Urgency(DaysLeft(shown[i].duedate, now)),
                         key |-> shown[i].key,
                         summary |-> shown[i].summary,
                         assignee_name |-> shown[i].assignee.displayName[1],
                         days_left |-> DaysLeft(shown[i].duedate, now) ] ],
                   0)

\* lines 299-418: [reply, intent, calls].  user_resp answers users.info,
\* jira_resp answers the one tracker search the chosen intent makes, now is
\* datetime.now() as read by the deadline branch.
process_natural_question(text, user_id, user_resp, jira_resp, now) ==
    LET text_clean == CleanText(text)
        slack_user == get_slack_user_by_mention(user_resp)
        c1 == << Call("users.info", user_id) >>
    IN  IF Falsy(slack_user)
        THEN [ reply |-> Reply("unknown_user", ":x:",
                               "Nao consegui identificar seu usuario.", 0, << >>, 0),
               intent |-> "none", calls |-> c1 ]
        ELSE LET user_email == UserEmail(slack_user.v)
                 display_name == DisplayName(slack_user.v)
                 intent == Intent(text_clean)
             IN  CASE intent = "personal" ->
                       [ reply |-> PersonalReply(display_name,
                                                 get_user_tickets(jira_resp).val),
                         intent |-> intent,
                         calls |-> Append(c1, Call("jira.search.user", user_email)) ]
                   [] intent = "team" ->
                       [ reply |-> TeamReply(get_team_summary(jira_resp).val),
                         intent |-> intent,
                         calls |-> Append(c1, Call("jira.search.team", "")) ]
                   [] intent = "deadlines" ->
                       [ reply |-> DeadlineReply(get_upcoming_deadlines(jira_resp).val, now),
                         intent |-> intent,
                         calls |-> Append(c1, Call("jira.search.deadlines", "")) ]
                   [] intent = "help" ->
                       [ reply |-> Reply("help", ":robot_face:", "*Comandos do Jiraldo:*",
                                         0, << >>, 0),
                         intent |-> intent, calls |-> c1 ]
                   [] OTHER ->
                       [ reply |-> Reply("fallback", ":thinking_face:",
                                         "@" \o display_name
                                             \o ", nao entendi sua pergunta.",
                                         0, << >>, 0),
                         intent |-> intent, calls |-> c1 ]

(***************************************************************************)
(* Inputs.                                                                 *)
(***************************************************************************)
\* pieces a message text is made of
Pieces ==
    { << "t", "i", "c", "k", "e", "t", "s" >>,
      << "E", "q", "u", "i", "p", "e" >>,
      << "p", "r", "a", "z", "o" >>,
      << "h", "e", "l", "p" >>,
      << "t", "i" >>,
      << "m", "e" >>,
      << " " >>,
      << "o", "i" >>,
      << "<", "@", "U", "1", ">" >>,
      << "<", "@", "4", "2", ">" >>,
      << "<", "@", "T", "E", "A", "M", ">" >> }

RECURSIVE Flatten(_)
Flatten(ps) == IF Len(ps) = 0 THEN << >> ELSE Head(ps) \o Flatten(Tail(ps))

Texts == { Flatten(ps) : ps \in SeqUpTo(Pieces, MaxPieces) }

\* one text for each branch of the router
SampleTexts ==
    { << "t", "i", "c", "k", "e", "t", "s" >>,
      << "E", "q", "u", "i", "p", "e" >>,
      << "p", "r", "a", "z", "o" >>,
      << "h", "e", "l", "p" >>,
      << "o", "i" >> }

Midnight == DateTime(1, 0)
Nows == { DateTime(1, t) : t \in 0..(UnitsPerDay - 1) }

AssignmentLists == SeqUpTo(AssignmentIssues, MaxIssues)
DeadlineLists == SeqUpTo(DeadlineIssues, MaxIssues)
TeamLists == SeqUpTo(TeamIssues, MaxIssues)

\* no tracker search is made
JiraUnused == JiraFailure("unused")

\* The request context is explored with three input domains:
\*   "router": every text, few tracker answers;
\*   "reply":  one text for each branch, every tracker answer;
\*   "system": a single text, which needs no tracker answer.
TextsOf(domain) ==
    IF domain = "router" THEN Texts
    ELSE IF domain = "reply" THEN SampleTexts
    ELSE { << "h", "e", "l", "p" >> }

UserAnswersOf(domain) ==
    IF domain = "router" THEN UserInfoResponses
    ELSE { SlackFailure, SlackResponse(TRUE, Some(U_alice)) }

JiraAnswersOf(domain, intent) ==
    LET lists == IF intent = "personal" THEN TicketLists
                 ELSE IF intent = "team" THEN TeamLists
                 ELSE DeadlineLists
        one == CHOOSE l \in lists : Len(l) = 1
    IN  IF intent \notin { "personal", "team", "deadlines" } THEN { JiraUnused }
        ELSE IF domain = "reply" THEN JiraResponses(lists)
        ELSE { JiraFailure("timeout"), JiraResponse(500, FALSE, FALSE, << >>),
               JiraResponse(HTTP_OK, TRUE, TRUE, << >>),
               JiraResponse(HTTP_OK, TRUE, TRUE, one) }

NowsOf(domain, intent) ==
    IF domain = "reply" /\ intent = "deadlines" THEN Nows ELSE { Midnight }

(***************************************************************************)
(* State.                                                                  *)
(***************************************************************************)
NoReq == [ pc |-> "idle", text |-> << >> ]
NoInputs ==
    [ text |-> << >>, user_resp |-> SlackFailure, jira_resp |-> JiraUnused,
      now |-> Midnight ]
NoOp == [ op |-> "none" ]

\* hours of the day the clock is read at
Hours == { 0, 7, 8, 13, 18, 19, 23 }

\* 30 s units between two runs of the job
IntervalUnits == (CHECK_INTERVAL_MINUTES * 60) \div SLEEP_SECONDS

Init ==
    /\ mpc = "run_pending"
    /\ elapsed = 0
    /\ slept = FALSE
    /\ running = 0
    /\ current_hour = -1
    /\ assignments = << >>
    /\ idx = 1
    /\ tick_calls = << >>
    /\ tick_notified = << >>
    /\ prev_notified = {}
    /\ req = NoReq
    /\ req_inputs = NoInputs
    /\ reply = NoReply
    /\ req_intent = "none"
    /\ req_calls = << >>
    /\ op_result = NoOp

(***************************************************************************)
(* Monitor thread: start_monitoring and check_new_assignments.             *)
(***************************************************************************)
OutsideWindow_exclusive(hour) ==
    hour <= NOTIFICATION_HOURS[1] \/ hour >= NOTIFICATION_HOURS[2]

\* line 428
OutsideWindow(hour) ==
    hour < NOTIFICATION_HOURS[1] \/ hour > NOTIFICATION_HOURS[2]

\* a timer that fires whenever the interval has elapsed, whatever the thread does
Due_timer(pc, el) == el >= IntervalUnits

\* schedule.run_pending(), called from the loop of lines 450-452: the job
\* runs in the calling thread once its interval has elapsed
Due(pc, el) == pc = "run_pending" /\ el >= IntervalUnits

\* the clock advances by 30 s
TimePasses ==
    /\ elapsed' = IF elapsed < IntervalUnits THEN elapsed + 1 ELSE elapsed
    /\ slept' = (mpc = "sleep")
    /\ (elapsed' # elapsed \/ slept' # slept)
    /\ UNCHANGED << mpc, running, current_hour, assignments, idx,
                    tick_calls, tick_notified, prev_notified, request_vars, op_result >>

\* run_pending finds no job due; the loop goes to sleep
RunPendingIdle ==
    /\ mpc = "run_pending"
    /\ ~Due(mpc, elapsed)
    /\ mpc' = "sleep"
    /\ slept' = FALSE
    /\ UNCHANGED << elapsed, running, current_hour, assignments, idx,
                    tick_calls, tick_notified, prev_notified, request_vars, op_result >>

\* time.sleep(30) returns
WakeUp ==
    /\ mpc = "sleep"
    /\ slept
    /\ mpc' = "run_pending"
    /\ UNCHANGED << elapsed, slept, running, current_hour, assignments,
                    idx, tick_calls, tick_notified, prev_notified, request_vars,
                    op_result >>

\* lines 426-431: check_new_assignments is entered and reads the clock
TickStart ==
    /\ Due(mpc, elapsed)
    /\ running' = running + 1
    /\ \E hour \in Hours :
         /\ current_hour' = hour
         /\ mpc' = IF OutsideWindow(hour) THEN "window_closed" ELSE "fetch"
    /\ assignments' = << >>
    /\ idx' = 1
    /\ tick_calls' = << >>
    /\ tick_notified' = << >>
    /\ UNCHANGED << elapsed, slept, prev_notified, request_vars, op_result >>

\* line 432
Fetch ==
    /\ mpc = "fetch"
    /\ \E resp \in JiraResponses(AssignmentLists) :
         assignments' = get_recent_assignments(resp).val
    /\ tick_calls' = Append(tick_calls, Call("jira.search.recent", ""))
    /\ idx' = 1
    /\ mpc' = "notify"
    /\ UNCHANGED << elapsed, slept, running, current_hour, tick_notified,
                    prev_notified, request_vars, op_result >>

\* an iteration that leaves out the issues notified in an earlier tick
NotifyAssignee_dedup ==
    /\ mpc = "notify"
    /\ idx <= Len(assignments)
    /\ assignments[idx].assignee.present
    /\ IF assignments[idx].key \in prev_notified
       THEN UNCHANGED << tick_calls, tick_notified >>
       ELSE /\ \E lookup \in LookupResponses, post \in PostMessageResponses :
                 tick_calls' = tick_calls
                     \o send_slack_notification(assignments[idx], lookup, post).calls
            /\ tick_notified' = Append(tick_notified, assignments[idx].key)
    /\ idx' = idx + 1
    /\ UNCHANGED << mpc, elapsed, slept, running, current_hour, assignments,
                    prev_notified, request_vars, op_result >>

\* lines 434-436, one iteration on an issue that has an assignee
NotifyAssignee ==
    /\ mpc = "notify"
    /\ idx <= Len(assignments)
    /\ assignments[idx].assignee.present
    /\ \E lookup \in LookupResponses, post \in PostMessageResponses :
         tick_calls' = tick_calls
                       \o send_slack_notification(assignments[idx], lookup, post).calls
    /\ tick_notified' = Append(tick_notified, assignments[idx].key)
    /\ idx' = idx + 1
    /\ UNCHANGED << mpc, elapsed, slept, running, current_hour, assignments,
                    prev_notified, request_vars, op_result >>

\* lines 434-435, one iteration on an issue without assignee
SkipUnassigned ==
    /\ mpc = "notify"
    /\ idx <= Len(assignments)
    /\ ~assignments[idx].assignee.present
    /\ idx' = idx + 1
    /\ UNCHANGED << mpc, elapsed, slept, running, current_hour, assignments,
                    tick_calls, tick_notified, prev_notified, request_vars, op_result >>

\* lines 429 and 438-442: the tick returns and its locals are gone; schedule
\* plans the next run one interval from now, and the loop goes to sleep
TickReturn ==
    /\ \/ mpc = "window_closed"
       \/ mpc = "notify" /\ idx > Len(assignments)
    /\ running' = running - 1
    /\ elapsed' = 0
    /\ mpc' = "sleep"
    /\ slept' = FALSE
    /\ prev_notified' = prev_notified \cup { tick_notified[i] : i \in 1..Len(tick_notified) }
    /\ current_hour' = -1
    /\ assignments' = << >>
    /\ idx' = 1
    /\ tick_calls' = << >>
    /\ tick_notified' = << >>
    /\ UNCHANGED << request_vars, op_result >>

(***************************************************************************)
(* Request context: slack_events.                                          *)
(***************************************************************************)
\* lines 473-490: a message event that mentions the bot arrives
EventReceived(domain) ==
    /\ req.pc = "idle"
    /\ \E text \in TextsOf(domain) : req' = [ pc |-> "handling", text |-> text ]
    /\ UNCHANGED << poller_vars, req_inputs, reply, req_intent, req_calls, op_result >>

\* lines 490-493: process_natural_question, then send_channel_message
EventReplied(domain) ==
    /\ req.pc = "handling"
    /\ \E user_resp \in UserAnswersOf(domain) :
         LET branch == IF Falsy(get_slack_user_by_mention(user_resp)) THEN "none"
                       ELSE Intent(CleanText(req.text))
         IN  \E jira_resp \in JiraAnswersOf(domain, branch), now \in NowsOf(domain, branch) :
               LET out == process_natural_question(req.text, "U1", user_resp, jira_resp, now)
               IN  /\ req_inputs' = [ text |-> req.text, user_resp |-> user_resp,
                                      jira_resp |-> jira_resp, now |-> now ]
                   /\ reply' = out.reply
                   /\ req_intent' = out.intent
                   /\ req_calls' = Append(out.calls, ChannelMessageCall("C1"))
    /\ req' = [ pc |-> "replied", text |-> req.text ]
    /\ UNCHANGED << poller_vars, op_result >>

\* line 500: the handler returns and its locals are gone
EventReturned ==
    /\ req.pc = "replied"
    /\ req' = NoReq
    /\ req_inputs' = NoInputs
    /\ reply' = NoReply
    /\ req_intent' = "none"
    /\ req_calls' = << >>
    /\ UNCHANGED << poller_vars, op_result >>

(***************************************************************************)
(* The client functions on their own: one call at a time, on any answer    *)
(* of the API it calls.                                                    *)
(***************************************************************************)
ApplyUserTickets ==
    /\ op_result = NoOp
    /\ \E resp \in JiraResponses(TicketLists) :
         op_result' = [ op |-> "get_user_tickets", resp |-> resp,
                        out |-> get_user_tickets(resp) ]
    /\ UNCHANGED << poller_vars, request_vars >>

ApplyTeamSummary ==
    /\ op_result = NoOp
    /\ \E resp \in JiraResponses(TeamLists) :
         op_result' = [ op |-> "get_team_summary", resp |-> resp,
                        out |-> get_team_summary(resp) ]
    /\ UNCHANGED << poller_vars, request_vars >>

ApplyUpcomingDeadlines ==
    /\ op_result = NoOp
    /\ \E resp \in JiraResponses(DeadlineLists) :
         op_result' = [ op |-> "get_upcoming_deadlines", resp |-> resp,
                        out |-> get_upcoming_deadlines(resp) ]
    /\ UNCHANGED << poller_vars, request_vars >>

ApplyRecentAssignments ==
    /\ op_result = NoOp
    /\ \E resp \in JiraResponses(AssignmentLists) :
         op_result' = [ op |-> "get_recent_assignments", resp |-> resp,
                        out |-> get_recent_assignments(resp) ]
    /\ UNCHANGED << poller_vars, request_vars >>

ApplySendDm ==
    /\ op_result = NoOp
    /\ \E email \in { "alice@example.com", "bob@example.com" },
          lookup \in LookupResponses, post \in PostMessageResponses :
         LET dm == send_slack_dm(email, lookup, post)
         IN  op_result' = [ op |-> "send_slack_dm", email |-> email, lookup |-> lookup,
                            out |-> dm.r, calls |-> dm.calls ]
    /\ UNCHANGED << poller_vars, request_vars >>

\* the function applied has returned to its caller
OpReturned ==
    /\ op_result # NoOp
    /\ op_result' = NoOp
    /\ UNCHANGED << poller_vars, request_vars >>

(***************************************************************************)
(* Specifications.                                                         *)
(***************************************************************************)
\* the whole program: the monitor thread and the request context
Next ==
    \/ TimePasses
    \/ RunPendingIdle
    \/ WakeUp
    \/ TickStart
    \/ Fetch
    \/ NotifyAssignee
    \/ SkipUnassigned
    \/ TickReturn
    \/ EventReceived("system")
    \/ EventReplied("system")
    \/ EventReturned

Spec == Init /\ [][Next]_vars

\* the router over every message text
NextRouter == EventReceived("router") \/ EventReplied("router") \/ EventReturned

SpecRouter == Init /\ [][NextRouter]_vars

\* the router over every tracker answer
NextReply == EventReceived("reply") \/ EventReplied("reply") \/ EventReturned

SpecReply == Init /\ [][NextReply]_vars

\* the client functions over every API answer
NextClients ==
    \/ ApplyUserTickets
    \/ ApplyTeamSummary
    \/ ApplyUpcomingDeadlines
    \/ ApplyRecentAssignments
    \/ ApplySendDm
    \/ OpReturned

SpecClients == Init /\ [][NextClients]_vars

(***************************************************************************)
(* Properties.                                                             *)
(***************************************************************************)
InTick == mpc \in { "window_closed", "fetch", "notify" }

\* the calls of a log made to one API
CallsTo(calls, api) == SelectSeq(calls, LAMBDA c : c.api = api)

\* C1: in a tick whose hour is below 8 or above 18 no HTTP call is made (no
\* tracker search, no chat message) and nothing is notified; in a tick whose
\* hour is within 8..18 the tracker is searched for recent assignments exactly
\* once (not yet while the tick is at the search, once from then on).
C1_WindowGatesTick ==
    InTick =>
        /\ (current_hour < 8 \/ current_hour > 18) =>
               /\ mpc = "window_closed"
               /\ tick_calls = << >>
               /\ tick_notified = << >>
        /\ (current_hour >= 8 /\ current_hour <= 18) =>
               /\ mpc # "window_closed"
               /\ Len(CallsTo(tick_calls, "jira.search.recent"))
                      = (IF mpc = "fetch" THEN 0 ELSE 1)

\* a tick at hour 7 is about to return with nothing done, after an earlier
\* tick inside the window has searched and notified
C1_Witness ==
    /\ mpc = "window_closed"
    /\ current_hour = 7
    /\ prev_notified # {}

Replied == req.pc = "replied"

KW_tickets == << "t", "i", "c", "k", "e", "t", "s" >>
KW_equipe == << "e", "q", "u", "i", "p", "e" >>

\* C2: when the router reaches the keyword tests, the branch taken is the
\* first of personal, team, deadlines, help whose keyword list has a member
\* occurring in the cleaned text, and fallback when none has; a text that
\* holds (in any case) a personal keyword and a team keyword is routed to
\* the personal branch.
C2_FirstMatchWins ==
    (Replied /\ req_intent # "none") =>
        LET clean == CleanText(req_inputs.text)
            folded == Lower(req_inputs.text)
            p == AnyIn(clean, PersonalKeywords)
            t == AnyIn(clean, TeamKeywords)
            d == AnyIn(clean, DeadlineKeywords)
            h == AnyIn(clean, HelpKeywords)
        IN  /\ req_intent = "personal" <=> p
            /\ req_intent = "team" <=> (~p /\ t)
            /\ req_intent = "deadlines" <=> (~p /\ ~t /\ d)
            /\ req_intent = "help" <=> (~p /\ ~t /\ ~d /\ h)
            /\ req_intent = "fallback" <=> (~p /\ ~t /\ ~d /\ ~h)
            /\ (AnyIn(folded, PersonalKeywords) /\ AnyIn(folded, TeamKeywords))
                   => req_intent = "personal"

\* a text holding "Equipe" and then "tickets" was routed to the personal branch
C2_Witness ==
    /\ Replied
    /\ Contains(Lower(req_inputs.text), KW_tickets)
    /\ Contains(Lower(req_inputs.text), KW_equipe)
    /\ Head(req_inputs.text) = "E"
    /\ req_intent = "personal"
    /\ reply.kind \in { "tickets", "no_tickets" }

FourSearches ==
    { "get_user_tickets", "get_team_summary", "get_upcoming_deadlines",
      "get_recent_assignments" }

\* the answer is no usable payload: no answer at all, a status other than
\* 200, a body that is not JSON, or (team summary) an issue that cannot be read
FailedAnswer(op, resp) ==
    \/ resp.transport # "ok"
    \/ resp.status # 200
    \/ ~resp.json
    \/ /\ op = "get_team_summary"
       /\ \E i \in 1..Len(resp.issues) : ~resp.issues[i].assignee.present

\* C3: none of the four tracker searches raises to its caller, and each
\* returns an empty result when the call raised or timed out, when the
\* status is not 200, or when reading the response raised.
C3_SearchFailsEmpty ==
    (op_result.op \in FourSearches) =>
        /\ ~op_result.out.exc
        /\ FailedAnswer(op_result.op, op_result.resp) => Len(op_result.out.val) = 0

\* the team summary met an issue without assignee in a 200 answer (reading it
\* raises) after it had counted another issue, and returned the empty mapping
C3_Witness ==
    /\ op_result.op = "get_team_summary"
    /\ op_result.resp.transport = "ok"
    /\ op_result.resp.status = 200
    /\ op_result.resp.json
    /\ Len(op_result.resp.issues) = 2
    /\ op_result.resp.issues[1].assignee.present
    /\ ~op_result.resp.issues[2].assignee.present
    /\ ~op_result.out.exc
    /\ op_result.out.val = << >>

\* the e-mail lookup resolves nobody: it raised, its body is not JSON, or its
\* "ok" is false
Unresolved(lookup) == lookup.transport # "ok" \/ ~lookup.json \/ ~lookup.ok

\* C4: send_slack_dm for an address the lookup does not resolve returns
\* false, raises nothing, and its only HTTP call is the lookup (no
\* chat.postMessage).
C4_UnresolvedDmIsFalse ==
    (op_result.op = "send_slack_dm" /\ Unresolved(op_result.lookup)) =>
        /\ ~op_result.out.exc
        /\ op_result.out.val = FALSE
        /\ op_result.calls = << Call("users.lookupByEmail", op_result.email) >>

\* the lookup answered ok = false although posting would have succeeded
C4_Witness ==
    /\ op_result.op = "send_slack_dm"
    /\ op_result.lookup = SlackResponse(FALSE, None)
    /\ op_result.out = Ok(FALSE)
    /\ Len(op_result.calls) = 1

\* users.info did not give a user: the call raised, its body is not JSON,
\* its "ok" is false, or it carries no user or an empty one
LookupFailed(user_resp) ==
    \/ user_resp.transport # "ok"
    \/ ~user_resp.json
    \/ ~user_resp.ok
    \/ user_resp.user.none
    \/ DOMAIN user_resp.user.v = {}

\* users.info gave a user whose profile has no e-mail address
NoEmail(user_resp) ==
    /\ ~LookupFailed(user_resp)
    /\ Get(Get(user_resp.user.v, "profile", EmptyDict), "email", "") = ""

\* the error reply, given before any keyword is tested or any search is made
ErrorReplyAtOnce ==
    /\ reply.kind = "unknown_user"
    /\ req_intent = "none"
    /\ req_calls = << Call("users.info", "U1"), ChannelMessageCall("C1") >>

\* C5 as stated: whenever the user lookup fails or the resolved user has no
\* e-mail address, the error reply is given at once, no keyword is tested
\* and no tracker search is made.
C5_Original ==
    (Replied /\ (LookupFailed(req_inputs.user_resp) \/ NoEmail(req_inputs.user_resp)))
        => ErrorReplyAtOnce

\* C5 amended: when the user lookup fails the error reply is given at once,
\* no keyword is tested and no tracker search is made; when the user is found
\* without an e-mail address, the address is the user name followed by
\* EMAIL_DOMAIN, the keywords are tested, and the personal search is made
\* for that address.
C5_LookupFailureRepliesAtOnce ==
    Replied =>
        /\ LookupFailed(req_inputs.user_resp) => ErrorReplyAtOnce
        /\ ~LookupFailed(req_inputs.user_resp) =>
               /\ reply.kind # "unknown_user"
               /\ req_intent = Intent(CleanText(req_inputs.text))
        /\ (NoEmail(req_inputs.user_resp) /\ req_intent = "personal") =>
               req_calls[2] = Call("jira.search.user",
                                   req_inputs.user_resp.user.v.name \o "@ifood.com.br")

\* users.info answered with an empty user to a text asking for tickets
C5_Witness ==
    /\ Replied
    /\ req_inputs.user_resp = SlackResponse(TRUE, Some(EmptyDict))
    /\ Contains(req_inputs.text, KW_tickets)
    /\ ErrorReplyAtOnce

\* the search of a data branch brought no item
ZeroItems ==
    \/ req_intent = "personal" /\ Len(get_user_tickets(req_inputs.jira_resp).val) = 0
    \/ req_intent = "team" /\ Len(get_team_summary(req_inputs.jira_resp).val) = 0
    \/ req_intent = "deadlines"
           /\ Len(get_upcoming_deadlines(req_inputs.jira_resp).val) = 0

\* C6 as stated: in each of the three data branches, a search that brings no
\* item is answered by a positive message, not an error and not an empty list.
C6_Original ==
    (Replied /\ ZeroItems) =>
        /\ reply.mark = ":tada:"
        /\ reply.kind \notin { "tickets", "team_report", "deadlines" }

\* C6 amended: a search that brings no item is answered by the positive
\* message in the personal and the deadline branch (never an error, never an
\* empty list); in the team branch it is answered by the error message
\* "Nao consegui gerar relatorio da equipe."
C6_NothingPending ==
    (Replied /\ ZeroItems) =>
        /\ req_intent = "personal" =>
               reply.kind = "no_tickets" /\ reply.mark = ":tada:"
        /\ req_intent = "deadlines" =>
               reply.kind = "no_deadlines" /\ reply.mark = ":tada:"
        /\ req_intent = "team" =>
               /\ reply.kind = "team_error"
               /\ reply.mark = ":x:"
               /\ reply.head = "Nao consegui gerar relatorio da equipe."

\* the tracker answered the team search with 200 and no issue
C6_Witness ==
    /\ Replied
    /\ req_intent = "team"
    /\ req_inputs.jira_resp = JiraResponse(200, TRUE, TRUE, << >>)
    /\ reply.kind = "team_error"

\* the urgency tag the claim gives to a number of days
TagOf(days) ==
    IF days <= 1 THEN ":rotating_light:"
    ELSE IF days <= 3 THEN ":warning:"
    ELSE ":date:"

\* C7: in a deadline reply each line's days-remaining is the due date minus
\* the current date, in calendar days, at every time of day, and its tag is
\* critical up to 1 day, warning for 2 and 3, normal from 4.
C7_CalendarDays ==
    (Replied /\ reply.kind = "deadlines") =>
        \A i \in 1..Len(reply.lines) :
            LET due == req_inputs.jira_resp.issues[i].duedate
                days == due - req_inputs.now.day
            IN  /\ reply.lines[i].days_left = days
                /\ reply.lines[i].urgency = TagOf(days)

\* C8: a personal reply to N >= 1 issues announces N, lists the first
\* min(N, 5) issues in the tracker's order with key, summary and status, and
\* announces a remainder of N - 5 exactly when N > 5.
C8_FirstFiveAndRemainder ==
    (Replied /\ req_intent = "personal"
        /\ Len(get_user_tickets(req_inputs.jira_resp).val) >= 1) =>
        LET issues == req_inputs.jira_resp.issues
            N == Len(issues)
        IN  /\ reply.kind = "tickets"
            /\ reply.total = N
            /\ Len(reply.lines) = (IF N < 5 THEN N ELSE 5)
            /\ \A i \in 1..Len(reply.lines) :
                   /\ reply.lines[i].key = issues[i].key
                   /\ reply.lines[i].summary = issues[i].summary
                   /\ reply.lines[i].status = issues[i].status
            /\ reply.more > 0 <=> N > 5
            /\ N > 5 => reply.more = N - 5

\* seven issues in descending key order: five listed, two announced
C8_Witness ==
    /\ Replied
    /\ reply.kind = "tickets"
    /\ reply.total = 7
    /\ Len(reply.lines) = 5
    /\ reply.lines[1].key = "JIR-7"
    /\ reply.lines[5].key = "JIR-3"
    /\ reply.more = 2

\* C9: at most one check_new_assignments call is in progress at any moment,
\* and it is the monitor thread that is inside it: a tick is entered only
\* with no tick in progress, however long the current one lasts, while a
\* request may be handled during a tick.
C9_CyclesNeverOverlap ==
    /\ running \in { 0, 1 }
    /\ running = 1 <=> InTick

\* a tick waits for a chat answer, the interval has elapsed again, and a
\* request is being handled
C9_Witness ==
    /\ running = 1
    /\ mpc = "notify"
    /\ idx <= Len(assignments)
    /\ elapsed >= IntervalUnits
    /\ req.pc = "handling"

HasAssignee(issue) == issue.assignee.present

\* the issue carries everything send_slack_notification reads
Readable(issue) ==
    issue.assignee.present /\ issue.assignee.has_email /\ issue.priority.present

\* the issues the loop of the current tick has gone through
Visited == SubSeq(assignments, 1, idx - 1)

KeysOf(issues) == [ i \in 1..Len(issues) |-> issues[i].key ]

\* C10: in a tick inside the window, the issues handed to
\* send_slack_notification are exactly the issues the search returned that
\* have an assignee, each once and in the returned order, whether or not
\* they were notified in an earlier tick and whatever became of the
\* notifications before them; the e-mail lookups made are those of the
\* readable ones among them, one each, at the assignee's address, in order.
C10_EveryAssigneeNotified ==
    (mpc = "notify") =>
        /\ tick_notified = KeysOf(SelectSeq(Visited, HasAssignee))
        /\ CallsTo(tick_calls, "users.lookupByEmail")
               = [ i \in 1..Len(SelectSeq(Visited, Readable)) |->
                     Call("users.lookupByEmail",
                          SelectSeq(Visited, Readable)[i].assignee.emailAddress) ]

\* a tick whose first notification raised and whose second, for an issue
\* already notified in an earlier tick, was sent
C10_Witness ==
    /\ mpc = "notify"
    /\ idx = 3
    /\ ~Readable(assignments[1])
    /\ HasAssignee(assignments[1])
    /\ assignments[2].key \in prev_notified
    /\ tick_notified = << assignments[1].key, assignments[2].key >>
    /\ tick_calls = << Call("jira.search.recent", ""),
                       Call("users.lookupByEmail", "alice@example.com"),
                       Call("chat.postMessage", "U100") >>

LowerSet == { LowerCase[i] : i \in 1..Len(LowerCase) }

\* end (exclusive) of the run of letters and digits of s that starts at i
RECURSIVE IdEnd(_, _)
IdEnd(s, i) ==
    IF i <= Len(s) /\ s[i] \in UpperSet \cup LowerSet \cup Digits
    THEN IdEnd(s, i + 1)
    ELSE i

\* length of the mention token <@ID> at position i of s, in either case of
\* its letters, 0 when there is none
TokenAt(s, i) ==
    IF i + 1 <= Len(s) /\ s[i] = "<" /\ s[i + 1] = "@"
    THEN LET e == IdEnd(s, i + 2)
         IN  IF e > i + 2 /\ e <= Len(s) /\ s[e] = ">" THEN e - i + 1 ELSE 0
    ELSE 0

HasMentionToken(s) == \E i \in 1..Len(s) : TokenAt(s, i) > 0

\* s from position i on, the ID of every mention token left out
RECURSIVE MaskIdsFrom(_, _)
MaskIdsFrom(s, i) ==
    IF i > Len(s) THEN << >>
    ELSE LET m == TokenAt(s, i)
         IN  IF m > 0 THEN << "<", "@", ">" >> \o MaskIdsFrom(s, i + m)
             ELSE << s[i] >> \o MaskIdsFrom(s, i + 1)

\* the two texts differ at most in the IDs inside their mention tokens
SameButIds(a, b) == MaskIdsFrom(a, 1) = MaskIdsFrom(b, 1)

\* C11: when the router reaches the keyword tests, the cleaned text holds no
\* mention token <@ID>, and every text that differs from the handled one only
\* in the ID inside a mention is routed to the same branch as it was.
C11_MentionRemoved ==
    (Replied /\ req_intent # "none") =>
        /\ ~HasMentionToken(CleanText(req_inputs.text))
        /\ \A other \in Texts :
               SameButIds(req_inputs.text, other)
                   => Intent(CleanText(other)) = req_intent

\* C11, first half alone: the cleaned text holds no mention token
C11_NoTokenLeft ==
    (Replied /\ req_intent # "none") =>
        ~HasMentionToken(CleanText(req_inputs.text))

\* C11, second half alone: the branch does not depend on the mentioned ID
C11_IdIndependent ==
    (Replied /\ req_intent # "none") =>
        \A other \in Texts :
            SameButIds(req_inputs.text, other)
                => Intent(CleanText(other)) = req_intent

\* what the pattern does remove: a mention whose ID is made of digits only,
\* the one kind that lower() leaves matching [A-Z0-9]+
C11_DigitIdsRemoved ==
    (Replied /\ req_intent # "none") =>
        \A i \in 1..Len(req_inputs.text) :
            LET m == TokenAt(req_inputs.text, i)
            IN  (m > 0 /\ \A j \in (i + 2)..(i + m - 2) : req_inputs.text[j] \in Digits)
                    => ~Contains(CleanText(req_inputs.text),
                                 SubSeq(req_inputs.text, i, i + m - 1))

====
